---- MODULE Spec2Model ----
(***************************************************************************)
(* Model of the two experiment programs of the repository:                 *)
(*   src/code/grid_trial.cpp  - backtracking search over grid preference   *)
(*                              profiles (hypothesis 1 active)             *)
(*   src/code/lp_proof.cpp    - enumeration of the single-crossing         *)
(*                              profiles handed to the theorem prover      *)
(*                                                                         *)
(* A preference list (Pref, vector<int>) is a sequence; the C++ index i is *)
(* the TLA+ index i + 1.  A Grid is a sequence of N rows of M preference   *)
(* lists; the C++ cell g[i][j] is g[i + 1][j + 1].                         *)
(***************************************************************************)
EXTENDS Integers, Sequences, FiniteSets

(* Compile-time configuration of grid_trial.cpp (main), scaled down. *)
N == 2
M == 2
C == 3

VARIABLES
    g,          \* the Grid owned by main and mutated by backtr
    stack,      \* call stack of backtr: frames [r, c, pc, n, g0]
    status,     \* "start", "running", "exit0", "exit1", "abort"
    cnt,        \* static int cnt of backtr (leaves processed)
    out,        \* stdout: the grids printed by show
    err,        \* stderr: the progress lines, by their cnt
    lastLeaf,   \* history: the grid of the latest leaf (<<>> before the first)
    \* a grid built cell by cell and queried (grid_valid, is_monodominated)
    qg, qprev, qvalid, qmono,
    \* one call of cnt_crosses, and the call with the arguments swapped
    xp0, xp1, xret, xrev,
    \* one call of has_isolated
    ig, iret,
    \* main of lp_proof.cpp
    sigma1, sigma2, lpc, lcnt, c2, nchecks, lastAns, lerr

dvars == <<g, stack, status, cnt, out, err, lastLeaf>>
gvars == <<qg, qprev, qvalid, qmono>>
xvars == <<xp0, xp1, xret, xrev>>
ivars == <<ig, iret>>
lvars == <<sigma1, sigma2, lpc, lcnt, c2, nchecks, lastAns, lerr>>

vars == <<dvars, gvars, xvars, ivars, lvars>>

-----------------------------------------------------------------------------
(* Preference lists                                                        *)

EmptyProf == <<>>

Max(S) == CHOOSE x \in S : \A y \in S : y <= x

(* iota(begin, end, 0) on a list resized to k entries *)
iota(k) == [i \in 1..k |-> i - 1]

(* every ranking of the candidates 0..k-1 *)
Perms(k) == {p \in [1..k -> 0..(k - 1)] : \A i, j \in 1..k : i # j => p[i] # p[j]}

Reverse(s) == [i \in 1..Len(s) |-> s[Len(s) + 1 - i]]

(* result of pos when the loop ends without a match (logic_error thrown) *)
NotFound == -1

RECURSIVE pos_from(_, _, _)
pos_from(p, c, i) ==
    IF i >= Len(p) THEN NotFound
    ELSE IF p[i + 1] = c THEN i
    ELSE pos_from(p, c, i + 1)

pos(p, c) == pos_from(p, c, 0)

prefers(p, c0, c1) == pos(p, c0) < pos(p, c1)

(* next_permutation that swaps but does not reverse the tail *)
next_permutation_no_reverse(a) ==
    LET n == Len(a)
        I == {i \in 1..(n - 1) : a[i] < a[i + 1]}
    IN  IF I = {}
        THEN [ok |-> FALSE, a |-> Reverse(a)]
        ELSE LET i == Max(I)
                 j == Max({k \in (i + 1)..n : a[k] > a[i]})
             IN  [ok |-> TRUE, a |-> [a EXCEPT ![i] = a[j], ![j] = a[i]]]

(* std::next_permutation: [ok |-> returned value, a |-> the range afterwards] *)
next_permutation(a) ==
    LET n == Len(a)
        I == {i \in 1..(n - 1) : a[i] < a[i + 1]}
    IN  IF I = {}
        THEN [ok |-> FALSE, a |-> Reverse(a)]
        ELSE LET i == Max(I)
                 j == Max({k \in (i + 1)..n : a[k] > a[i]})
                 sw == [a EXCEPT ![i] = a[j], ![j] = a[i]]
             IN  [ok |-> TRUE,
                  a  |-> [k \in 1..n |-> IF k <= i THEN sw[k] ELSE sw[n + i + 1 - k]]]

-----------------------------------------------------------------------------
(* Bounding boxes                                                          *)

INF == 2147483647

Rect(r0, r1, c0, c1) == [r0 |-> r0, r1 |-> r1, c0 |-> c0, c1 |-> c1]

EmptyRect == Rect(INF, -INF, INF, -INF)

add(b, r, c) ==
    Rect(IF b.r0 < r THEN b.r0 ELSE r, IF b.r1 > r THEN b.r1 ELSE r,
         IF b.c0 < c THEN b.c0 ELSE c, IF b.c1 > c THEN b.c1 ELSE c)

(* intersects_with_horizontal with a strict lower comparison *)
intersects_with_horizontal_strict(b, r) == b.r0 < r /\ r < b.r1

intersects_with_horizontal(b, r) == b.r0 <= r /\ r < b.r1

intersects_with_vertical(b, c) == b.c0 <= c /\ c < b.c1

(* do_intersect with its first comparison turned round *)
do_intersect_first_flipped(a, b) ==
    IF a.r0 < b.r1 THEN FALSE
    ELSE IF b.r0 > a.r1 THEN FALSE
    ELSE IF a.c0 > b.c1 THEN FALSE
    ELSE IF b.c0 > a.c1 THEN FALSE
    ELSE TRUE

do_intersect(a, b) ==
    IF a.r0 > b.r1 THEN FALSE
    ELSE IF b.r0 > a.r1 THEN FALSE
    ELSE IF a.c0 > b.c1 THEN FALSE
    ELSE IF b.c0 > a.c1 THEN FALSE
    ELSE TRUE

-----------------------------------------------------------------------------
(* Grid queries                                                            *)

Rows(gr) == Len(gr)
Cols(gr) == Len(gr[1])

EmptyGrid(n, m) == [i \in 1..n |-> [j \in 1..m |-> EmptyProf]]

(* what a bounding-box scan yields once pos has thrown *)
Thrown == [thrown |-> TRUE]

(* the row-major scan "for i, for j" as a fold over k = i * M + j; the scan
   ends with the exception of pos when an assigned list lacks c0 or c1 *)
RECURSIVE pref_box_from(_, _, _, _, _)
pref_box_from(gr, c0, c1, k, ans) ==
    IF k >= Rows(gr) * Cols(gr) THEN ans
    ELSE LET i == k \div Cols(gr)
             j == k % Cols(gr)
             p == gr[i + 1][j + 1]
         IN  IF p = EmptyProf THEN pref_box_from(gr, c0, c1, k + 1, ans)
             ELSE IF pos(p, c0) = NotFound \/ pos(p, c1) = NotFound THEN Thrown
             ELSE pref_box_from(gr, c0, c1, k + 1,
                                IF prefers(p, c0, c1) THEN add(ans, i, j) ELSE ans)

get_preference_bounding_box(gr, c0, c1) == pref_box_from(gr, c0, c1, 0, EmptyRect)

RECURSIVE dom_box_from(_, _, _, _)
dom_box_from(gr, c, k, ans) ==
    IF k >= Rows(gr) * Cols(gr) THEN ans
    ELSE LET i == k \div Cols(gr)
             j == k % Cols(gr)
         IN  dom_box_from(gr, c, k + 1,
                 IF gr[i + 1][j + 1][1] = c THEN add(ans, i, j) ELSE ans)

get_dominance_box(gr, c) == dom_box_from(gr, c, 0, EmptyRect)

(* the pair loop of grid_valid from (c0, c1) on: "true", "false" or "throw" *)
RECURSIVE grid_valid_from(_, _, _, _)
grid_valid_from(gr, k, c0, c1) ==
    IF c0 >= k THEN "true"
    ELSE IF c1 >= k THEN grid_valid_from(gr, k, c0 + 1, c0 + 2)
    ELSE LET b0 == get_preference_bounding_box(gr, c0, c1)
             b1 == get_preference_bounding_box(gr, c1, c0)
         IN  IF b0 = Thrown \/ b1 = Thrown THEN "throw"
             ELSE IF do_intersect(b0, b1) THEN "false"
             ELSE grid_valid_from(gr, k, c0, c1 + 1)

(* grid_valid with the outer loop started at c0 = 1 *)
grid_valid_outcome_from_one(gr, k) == grid_valid_from(gr, k, 1, 2)

grid_valid_outcome(gr, k) == grid_valid_from(gr, k, 0, 1)

grid_valid(gr, k) == grid_valid_outcome(gr, k) = "true"

(* has_isolated with the lower border taken one row too high *)
has_isolated_off_by_one(gr, k) ==
    \E c \in 0..(k - 1) :
        LET r == get_dominance_box(gr, c)
        IN  /\ r.r0 # INF
            /\ r.r0 > 0 /\ r.r1 < Rows(gr) - 2 /\ r.c0 > 0 /\ r.c1 < Cols(gr) - 1

is_monodominated(gr) ==
    LET r == get_dominance_box(gr, 0)
    IN  r.r0 = 0 /\ r.c0 = 0 /\ r.r1 = Rows(gr) - 1 /\ r.c1 = Cols(gr) - 1

has_isolated(gr, k) ==
    \E c \in 0..(k - 1) :
        LET r == get_dominance_box(gr, c)
        IN  /\ r.r0 # INF
            /\ r.r0 > 0 /\ r.r1 < Rows(gr) - 1 /\ r.c0 > 0 /\ r.c1 < Cols(gr) - 1

admits_split_line(gr, k) ==
    \/ \E i \in 0..(Rows(gr) - 2) :
           \A c \in 0..(k - 1) : ~intersects_with_horizontal(get_dominance_box(gr, c), i)
    \/ \E j \in 0..(Cols(gr) - 2) :
           \A c \in 0..(k - 1) : ~intersects_with_vertical(get_dominance_box(gr, c), j)

(* what show writes: the rows of tokens ("?" for an unknown list), then "####" *)
show(gr) ==
    <<[i \in 1..Rows(gr) |->
          [j \in 1..Cols(gr) |-> IF gr[i][j] = EmptyProf THEN <<"?">> ELSE gr[i][j]]],
      "####">>

-----------------------------------------------------------------------------
(* backtr and main of grid_trial.cpp                                       *)

Frame(r, c, gr) == [r |-> r, c |-> c, pc |-> "entry", n |-> 0, g0 |-> gr]

Top == stack[Len(stack)]
Pop == SubSeq(stack, 1, Len(stack) - 1)
SetTop(f) == [stack EXCEPT ![Len(stack)] = f]

(* the break taken for every voter of row 0 *)
first_row(r, c) == r = 0

(* "if (r == 0 && c == 0) break;" *)
first_voter(r, c) == r = 0 /\ c = 0

(* g[r][c] = EmptyProf, left undone *)
cleared_not(gr, r, c) == gr

(* "g[r][c] = EmptyProf;" *)
cleared(gr, r, c) == [gr EXCEPT ![r + 1][c + 1] = EmptyProf]

(* hypothesis 1 fails on a leaf *)
counterexample(gr, k) == ~admits_split_line(gr, k) /\ ~is_monodominated(gr)

(* the variables of a program that is not the one running *)
DIdle ==
    /\ g = <<>> /\ stack = <<>> /\ status = "idle" /\ cnt = 0
    /\ out = <<>> /\ err = <<>> /\ lastLeaf = <<>>
GIdle == qg = <<>> /\ qprev = <<>> /\ qvalid = <<>> /\ qmono = <<>>
XIdle == xp0 = <<>> /\ xp1 = <<>> /\ xret = <<>> /\ xrev = <<>>
IIdle == ig = <<>> /\ iret = <<>>
LIdle ==
    /\ sigma1 = <<>> /\ sigma2 = <<>> /\ lpc = "idle" /\ lcnt = 0
    /\ c2 = 0 /\ nchecks = 0 /\ lastAns = "none" /\ lerr = <<>>

(* main: Grid g(N x M of EmptyProf) *)
DInit ==
    /\ g = EmptyGrid(N, M)
    /\ stack = <<>>
    /\ status = "start"
    /\ cnt = 0
    /\ out = <<>>
    /\ err = <<>>
    /\ lastLeaf = <<>>

(* main: backtr(g, C, 0, 0) *)
main_call ==
    /\ status = "start"
    /\ status' = "running"
    /\ stack' = <<Frame(0, 0, g)>>
    /\ UNCHANGED <<g, cnt, out, err, lastLeaf>>
    /\ UNCHANGED <<gvars, xvars, ivars, lvars>>

(* main: return 0 *)
main_return ==
    /\ status = "running"
    /\ stack = <<>>
    /\ status' = "exit0"
    /\ UNCHANGED <<g, stack, cnt, out, err, lastLeaf>>
    /\ UNCHANGED <<gvars, xvars, ivars, lvars>>

(* backtr from its first line to its first recursive call, return or exit *)
backtr_entry ==
    /\ status = "running"
    /\ stack # <<>>
    /\ Top.pc = "entry"
    /\ \E v \in {grid_valid_outcome(g, C)} :
       LET r == Top.r
           c == Top.c
       IN  IF v = "throw"
           THEN /\ status' = "abort"
                /\ UNCHANGED <<g, stack, cnt, out, err, lastLeaf>>
           ELSE IF v = "false"
           THEN /\ stack' = Pop
                /\ UNCHANGED <<g, status, cnt, out, err, lastLeaf>>
           ELSE IF r = Rows(g)
           THEN /\ cnt' = cnt + 1
                /\ err' = IF (cnt + 1) % 100 = 0 THEN Append(err, cnt + 1) ELSE err
                /\ lastLeaf' = g
                /\ IF counterexample(g, C)
                   THEN /\ out' = Append(out, show(g))
                        /\ status' = "exit1"
                        /\ UNCHANGED <<g, stack>>
                   ELSE /\ stack' = Pop
                        /\ UNCHANGED <<g, status, out>>
           ELSE IF c = Cols(g)
           THEN /\ stack' = Append(SetTop([Top EXCEPT !.pc = "row"]), Frame(r + 1, 0, g))
                /\ UNCHANGED <<g, status, cnt, out, err, lastLeaf>>
           ELSE /\ g' = [g EXCEPT ![r + 1][c + 1] = iota(C)]
                /\ stack' = Append(SetTop([Top EXCEPT !.pc = "loop", !.n = 1]),
                                   Frame(r, c + 1, g'))
                /\ UNCHANGED <<status, cnt, out, err, lastLeaf>>
    /\ UNCHANGED <<gvars, xvars, ivars, lvars>>

(* backtr(g, C, r + 1, 0) has returned: the call at c == M returns too *)
backtr_row_return ==
    /\ status = "running"
    /\ stack # <<>>
    /\ Top.pc = "row"
    /\ stack' = Pop
    /\ UNCHANGED <<g, status, cnt, out, err, lastLeaf>>
    /\ UNCHANGED <<gvars, xvars, ivars, lvars>>

(* the do-while loop after backtr(g, C, r, c + 1) has returned *)
backtr_loop ==
    /\ status = "running"
    /\ stack # <<>>
    /\ Top.pc = "loop"
    /\ LET r == Top.r
           c == Top.c
           np == next_permutation(g[r + 1][c + 1])
       IN  IF ~first_voter(r, c) /\ np.ok
           THEN /\ g' = [g EXCEPT ![r + 1][c + 1] = np.a]
                /\ stack' = Append(SetTop([Top EXCEPT !.n = Top.n + 1]),
                                   Frame(r, c + 1, g'))
           ELSE /\ g' = cleared(g, r, c)
                /\ stack' = Pop
    /\ UNCHANGED <<status, cnt, out, err, lastLeaf>>
    /\ UNCHANGED <<gvars, xvars, ivars, lvars>>

DNext ==
    \/ main_call
    \/ backtr_entry
    \/ backtr_row_return
    \/ backtr_loop
    \/ main_return

Init == DInit /\ GIdle /\ XIdle /\ IIdle /\ LIdle

Next == DNext

(* a run of grid_trial *)
Spec == Init /\ [][Next]_vars

-----------------------------------------------------------------------------
(* grid_valid and is_monodominated on grids assigned cell by cell, in any   *)
(* order and with any rankings (the functions take any Grid)                *)

PermsC == Perms(C)

(* every cell holds a ranking: what get_dominance_box needs to read g[i][j][0] *)
Complete(gr) ==
    \A i \in 1..Rows(gr), j \in 1..Cols(gr) : gr[i][j] \in PermsC

GInit ==
    /\ qg = EmptyGrid(N, M)
    /\ qprev = <<>>
    /\ qvalid = <<>>
    /\ qmono = <<>>

(* grid_valid(g, C) *)
query_valid ==
    /\ qg # <<>>
    /\ qvalid = <<>>
    /\ qvalid' = <<grid_valid(qg, C)>>
    /\ UNCHANGED <<qg, qprev, qmono>>
    /\ UNCHANGED <<dvars, xvars, ivars, lvars>>

(* one more cell gets a ranking; the verdict on the grid before is kept *)
assign_cell ==
    /\ qg # <<>>
    /\ qvalid # <<>>
    /\ \E i \in 1..Rows(qg), j \in 1..Cols(qg), p \in PermsC :
           /\ qg[i][j] = EmptyProf
           /\ qg' = [qg EXCEPT ![i][j] = p]
    /\ qprev' = qvalid
    /\ qvalid' = <<>>
    /\ qmono' = <<>>
    /\ UNCHANGED <<dvars, xvars, ivars, lvars>>

(* is_monodominated(g) on a grid without unknown lists *)
query_mono ==
    /\ qg # <<>>
    /\ Complete(qg)
    /\ qmono = <<>>
    /\ qmono' = <<is_monodominated(qg)>>
    /\ UNCHANGED <<qg, qprev, qvalid>>
    /\ UNCHANGED <<dvars, xvars, ivars, lvars>>

GNext ==
    \/ query_valid
    \/ assign_cell
    \/ query_mono

InitGrid == GInit /\ DIdle /\ XIdle /\ IIdle /\ LIdle

SpecGrid == InitGrid /\ [][GNext]_vars

-----------------------------------------------------------------------------
(* cnt_crosses                                                              *)

(* inv_p[p[i]] = i for i < k *)
inverse(p, k) == [c \in 0..(k - 1) |-> Max({i \in 0..(k - 1) : p[i + 1] = c})]

(* the inner loop started at c1 = c0 + 2 *)
crossing_partners_skip(c0, k) == (c0 + 2)..(k - 1)

(* the inner loop "for (c1 = c0 + 1; c1 < C; ++c1)" *)
crossing_partners(c0, k) == (c0 + 1)..(k - 1)

cnt_crosses(p0, p1, k) ==
    LET inv_p0 == inverse(p0, k)
        inv_p1 == inverse(p1, k)
    IN  Cardinality({<<c0, c1>> \in (0..(k - 1)) \X (0..(k - 1)) :
                        /\ c1 \in crossing_partners(c0, k)
                        /\ (inv_p0[c0] < inv_p0[c1]) # (inv_p1[c0] < inv_p1[c1])})

XInit ==
    /\ xp0 \in PermsC
    /\ xp1 \in PermsC
    /\ xret = <<>>
    /\ xrev = <<>>

(* cnt_crosses(p0, p1, C) *)
cross_call ==
    /\ xp0 # <<>>
    /\ xret = <<>>
    /\ xret' = <<cnt_crosses(xp0, xp1, C)>>
    /\ UNCHANGED <<xp0, xp1, xrev>>
    /\ UNCHANGED <<dvars, gvars, ivars, lvars>>

(* cnt_crosses(p1, p0, C) *)
cross_call_swapped ==
    /\ xp0 # <<>>
    /\ xrev = <<>>
    /\ xrev' = <<cnt_crosses(xp1, xp0, C)>>
    /\ UNCHANGED <<xp0, xp1, xret>>
    /\ UNCHANGED <<dvars, gvars, ivars, lvars>>

XNext ==
    \/ cross_call
    \/ cross_call_swapped

InitCross == XInit /\ DIdle /\ GIdle /\ IIdle /\ LIdle

SpecCross == InitCross /\ [][XNext]_vars

-----------------------------------------------------------------------------
(* has_isolated on the profile of the header comment (hypothesis 2) and on  *)
(* the profiles that differ from it in one voter                            *)

Hyp2C == 5

Hyp2Grid ==
    << << <<0,1,2,3,4>>, <<0,2,1,3,4>>, <<0,3,2,1,4>> >>,
       << <<1,2,3,0,4>>, <<2,1,3,0,4>>, <<3,2,1,0,4>> >>,
       << <<4,1,2,3,0>>, <<4,2,1,3,0>>, <<4,3,2,1,0>> >> >>

Hyp2Inputs ==
    {Hyp2Grid} \cup
    {[Hyp2Grid EXCEPT ![i][j] = p] :
        i \in 1..Rows(Hyp2Grid), j \in 1..Cols(Hyp2Grid), p \in Perms(Hyp2C)}

IInit ==
    /\ ig \in Hyp2Inputs
    /\ iret = <<>>

(* has_isolated(g, C) *)
isolated_call ==
    /\ ig # <<>>
    /\ iret = <<>>
    /\ iret' = <<has_isolated(ig, Hyp2C)>>
    /\ UNCHANGED ig
    /\ UNCHANGED <<dvars, gvars, xvars, lvars>>

INext == isolated_call

InitIsolated == IInit /\ DIdle /\ GIdle /\ XIdle /\ LIdle

SpecIsolated == InitIsolated /\ [][INext]_vars

-----------------------------------------------------------------------------
(* lp_proof.cpp.  An array int sigma[5] is a sequence of 5 entries, the C++ *)
(* index i being the TLA+ index i + 1; entry 0 is never read.               *)

NumCand == 4

sigma_init == <<0, 1, 2, 3, 4>>

(* next_permutation(sigma + 1, sigma + 5) *)
next_sigma(s) ==
    LET np == next_permutation(Tail(s))
    IN  [ok |-> np.ok, a |-> <<Head(s)>> \o np.a]

(* where[sigma[i]] = i for i in 1..4 *)
where(s) == [a \in 1..NumCand |-> Max({i \in 1..NumCand : s[i + 1] = a})]

(* the inner loop ended at b < 4 *)
sc_partners_short(a) == (a + 1)..(NumCand - 1)

(* the inner loop "for (b = a + 1; b <= 4; ++b)" *)
sc_partners(a) == (a + 1)..NumCand

single_crossing(s1, s2) ==
    LET where1 == where(s1)
        where2 == where(s2)
    IN  \A a \in 1..NumCand : \A b \in sc_partners(a) :
            ~(where1[a] > where1[b] /\ where2[a] < where2[b])

(* what s.check() may answer; the solver is outside the program *)
Answers == {"unsat", "sat", "unknown"}

LInit ==
    /\ sigma1 = sigma_init
    /\ sigma2 = sigma_init
    /\ lpc = "test"
    /\ lcnt = 0
    /\ c2 = 0
    /\ nchecks = 0
    /\ lastAns = "none"
    /\ lerr = <<>>

(* "if (single_crossing(sigma1, sigma2))": count and report the profile *)
lp_test ==
    /\ lpc = "test"
    /\ IF single_crossing(sigma1, sigma2)
       THEN /\ lcnt' = lcnt + 1
            /\ lerr' = Append(lerr, lcnt + 1)
            /\ c2' = 1
            /\ lpc' = "check"
       ELSE /\ lpc' = "advance"
            /\ UNCHANGED <<lcnt, lerr, c2>>
    /\ UNCHANGED <<sigma1, sigma2, nchecks, lastAns>>
    /\ UNCHANGED <<dvars, gvars, xvars, ivars>>

(* check(sigma1, sigma2, c2): exit(1) unless the solver answers unsat *)
lp_check ==
    /\ lpc = "check"
    /\ \E ans \in Answers :
           /\ lastAns' = ans
           /\ nchecks' = nchecks + 1
           /\ IF ans # "unsat"
              THEN lpc' = "exit1" /\ c2' = c2
              ELSE IF c2 + 1 <= NumCand
              THEN lpc' = "check" /\ c2' = c2 + 1
              ELSE lpc' = "advance" /\ c2' = c2
    /\ UNCHANGED <<sigma1, sigma2, lcnt, lerr>>
    /\ UNCHANGED <<dvars, gvars, xvars, ivars>>

(* the two "while (next_permutation(...))" tests, and "return 0" *)
lp_advance ==
    /\ lpc = "advance"
    /\ LET n2 == next_sigma(sigma2)
           n1 == next_sigma(sigma1)
       IN  IF n2.ok
           THEN sigma2' = n2.a /\ sigma1' = sigma1 /\ lpc' = "test"
           ELSE IF n1.ok
           THEN sigma1' = n1.a /\ sigma2' = sigma_init /\ lpc' = "test"
           ELSE sigma1' = n1.a /\ sigma2' = n2.a /\ lpc' = "exit0"
    /\ UNCHANGED <<lcnt, c2, nchecks, lastAns, lerr>>
    /\ UNCHANGED <<dvars, gvars, xvars, ivars>>

LNext ==
    \/ lp_test
    \/ lp_check
    \/ lp_advance

InitLP == LInit /\ DIdle /\ GIdle /\ XIdle /\ IIdle

SpecLP == InitLP /\ [][LNext]_vars

-----------------------------------------------------------------------------
(* Properties                                                               *)

Factorial(k) == Cardinality(Perms(k))

(* a node: backtr has been entered and has not yet run its first line *)
AtEntry == status = "running" /\ stack # <<>> /\ Top.pc = "entry"

(* a leaf: backtr entered with r == N on a grid that passes grid_valid *)
AtLeaf == AtEntry /\ Top.r = N /\ grid_valid(g, C)

(* a call backtr(g, C, r, c + 1) made by the loop of the top frame has returned *)
InLoop == status = "running" /\ stack # <<>> /\ Top.pc = "loop"

LexLess(s, t) ==
    \E i \in 1..Len(s) : s[i] < t[i] /\ \A j \in 1..(i - 1) : s[j] = t[j]

(* a complete grid as one list, row-major *)
Flat(gr) ==
    [k \in 1..(Rows(gr) * Cols(gr) * Len(gr[1][1])) |->
        LET cell == (k - 1) \div Len(gr[1][1])
        IN  gr[(cell \div Cols(gr)) + 1][(cell % Cols(gr)) + 1][((k - 1) % Len(gr[1][1])) + 1]]

GridLess(a, b) == LexLess(Flat(a), Flat(b))

SameTop(gr) == \A i \in 1..Rows(gr), j \in 1..Cols(gr) : gr[i][j][1] = gr[1][1][1]

AllTopZero(gr) == \A i \in 1..Rows(gr), j \in 1..Cols(gr) : gr[i][j][1] = 0

(* cells strictly before the cursor hold rankings, the others are unknown *)
CursorInv(gr, r, c) ==
    \A i \in 0..(Rows(gr) - 1), j \in 0..(Cols(gr) - 1) :
        IF i * Cols(gr) + j < r * Cols(gr) + c
        THEN gr[i + 1][j + 1] \in PermsC
        ELSE gr[i + 1][j + 1] = EmptyProf

(* the complete n x m grids over k candidates that pass grid_valid and whose
   voter (0, 0) holds the identity ranking *)
ValidLeaves(n, m, k) ==
    {h \in [1..n -> [1..m -> Perms(k)]] : h[1][1] = iota(k) /\ grid_valid(h, k)}

(* C1: on every leaf admits_split_line and is_monodominated are never both true;
   a leaf on which both are false makes the run print the grid and end with
   exit code 1 at once, any other leaf lets the run go on; the run ends with
   exit code 1 only on such a leaf, and with exit code 0 having printed
   nothing. *)
C1_LeafTrichotomy ==
    /\ [](AtLeaf => ~(admits_split_line(g, C) /\ is_monodominated(g)))
    /\ [][AtLeaf =>
            IF ~admits_split_line(g, C) /\ ~is_monodominated(g)
            THEN status' = "exit1" /\ out' = Append(out, show(g))
                 /\ stack' = stack /\ g' = g
            ELSE status' = "running" /\ out' = out]_vars
    /\ [](status = "exit1" =>
            /\ ~admits_split_line(lastLeaf, C) /\ ~is_monodominated(lastLeaf)
            /\ out = <<show(lastLeaf)>>)
    /\ [](status = "exit0" => out = <<>> /\ stack = <<>>)
    /\ [][status = "exit0" \/ status = "exit1" => UNCHANGED vars]_vars

(* C1 witness: a leaf that admits a split line and is not monodominated, after a
   leaf has already been let through *)
C1_Witness ==
    AtLeaf /\ cnt > 0 /\ admits_split_line(g, C) /\ ~is_monodominated(g)

(* C2: assigning one more cell of a grid that fails grid_valid gives a grid that
   fails grid_valid. *)
C2_FeasibilityMonotone ==
    (qprev = <<FALSE>> /\ qvalid # <<>>) => qvalid = <<FALSE>>

(* C2 witness: a failing grid got one more cell and was queried again *)
C2_Witness == qprev = <<FALSE>> /\ qvalid = <<FALSE>>

(* C3: on any complete grid is_monodominated returns true exactly when every
   cell's most preferred candidate is 0. *)
C3_MonodominanceAnyGrid ==
    qmono # <<>> => (qmono[1] <=> AllTopZero(qg))

(* C4: cnt_crosses is symmetric, is 0 exactly for equal rankings, lies in
   0..C(C-1)/2, and is C(C-1)/2 when p1 is p0 reversed. *)
C4_CrossingCount ==
    (xret # <<>> /\ xrev # <<>>) =>
        /\ xret[1] = xrev[1]
        /\ (xret[1] = 0 <=> xp0 = xp1)
        /\ 0 <= xret[1] /\ xret[1] <= (C * (C - 1)) \div 2
        /\ (xp1 = Reverse(xp0) => xret[1] = (C * (C - 1)) \div 2)

(* C4 witness: both calls made on a ranking and its reversal *)
C4_Witness ==
    xret # <<>> /\ xrev # <<>> /\ xp0 # <<>> /\ xp1 = Reverse(xp0)

(* C5: voter (0, 0) holds the identity whenever assigned; a cell starts with the
   identity, each further assignment is a ranking lexicographically greater than
   the one before and is followed by one call at (r, c + 1); when the loop of a
   cell other than (0, 0) ends it has made C! assignments, that of (0, 0)
   exactly one. *)
C5_PermutationCompleteness ==
    /\ [](g[1][1] = EmptyProf \/ g[1][1] = iota(C))
    /\ [][(AtEntry /\ Len(stack') > Len(stack) /\ Top.c < M) =>
            /\ g'[Top.r + 1][Top.c + 1] = iota(C)
            /\ stack'[Len(stack)].n = 1
            /\ stack'[Len(stack')].r = Top.r /\ stack'[Len(stack')].c = Top.c + 1]_vars
    /\ [][(InLoop /\ Len(stack') > Len(stack)) =>
            /\ ~(Top.r = 0 /\ Top.c = 0)
            /\ g'[Top.r + 1][Top.c + 1] \in PermsC
            /\ LexLess(g[Top.r + 1][Top.c + 1], g'[Top.r + 1][Top.c + 1])
            /\ stack'[Len(stack)].n = Top.n + 1
            /\ stack'[Len(stack')].r = Top.r /\ stack'[Len(stack')].c = Top.c + 1]_vars
    /\ [][(InLoop /\ Len(stack') < Len(stack)) =>
            Top.n = IF Top.r = 0 /\ Top.c = 0 THEN 1 ELSE Factorial(C)]_vars

(* C5 witness: a cell other than (0, 0) holds the last ranking, its C!-th *)
C5_Witness ==
    /\ InLoop /\ ~(Top.r = 0 /\ Top.c = 0)
    /\ Top.n = Factorial(C)
    /\ g[Top.r + 1][Top.c + 1] = Reverse(iota(C))

(* C6: has_isolated is true on the profile of the header comment. *)
C6_Hyp2Counterexample ==
    (ig = Hyp2Grid /\ iret # <<>>) => iret = <<TRUE>>

(* C6 witness: has_isolated has answered on that profile *)
C6_Witness == ig = Hyp2Grid /\ iret = <<TRUE>>

NumProfiles == 151

(* C7: the harness numbers the single-crossing pairs 1, 2, ...; it calls check
   for c2 = 1..4 in turn for each; it exits 1 exactly at the first answer that
   is not unsat; it exits 0 after 151 profiles and 604 checks. *)
C7_HarnessEnumeration ==
    /\ lerr = [i \in 1..lcnt |-> i]
    /\ (lpc = "check" => c2 \in 1..NumCand /\ nchecks = NumCand * (lcnt - 1) + (c2 - 1))
    /\ (lpc \in {"test", "advance", "exit0"} => nchecks = NumCand * lcnt)
    /\ (lpc = "exit1" <=> lastAns \in {"sat", "unknown"})
    /\ (lpc = "exit0" => lcnt = NumProfiles /\ nchecks = NumCand * NumProfiles)

(* C7 witness: the harness has exited 0 *)
C7_Witness == lpc = "exit0" /\ lcnt = NumProfiles /\ lastAns = "unsat"

(* C8: the hypothesis check runs exactly on the leaves; every leaf is complete,
   has the identity at (0, 0) and is lexicographically greater than the leaf
   before it (so no leaf is met twice); a run that exits 0 has met as many
   leaves as there are complete grids with the identity at (0, 0) that pass
   grid_valid. *)
C8_SearchCompleteness ==
    /\ [][cnt' # cnt => AtLeaf /\ lastLeaf' = g]_vars
    /\ [][AtLeaf => cnt' = cnt + 1]_vars
    /\ [](AtLeaf =>
            /\ Complete(g) /\ g[1][1] = iota(C)
            /\ (lastLeaf # <<>> => GridLess(lastLeaf, g)))
    /\ [](status = "exit0" => cnt = Cardinality(ValidLeaves(N, M, C)))

(* C8 witness: the run has exited 0 having met every such grid *)
C8_Witness ==
    status = "exit0" /\ cnt > 1 /\ cnt = Cardinality(ValidLeaves(N, M, C))

(* C9: at every node the cells before the cursor hold rankings and the others
   are unknown; a frame records the grid it was entered with and a return
   leaves exactly that grid; the grid is complete at r == N; pos never
   throws. *)
C9_CursorBacktrack ==
    /\ [](AtEntry => CursorInv(g, Top.r, Top.c) /\ Top.g0 = g)
    /\ [][Len(stack') < Len(stack) => g' = Top.g0]_vars
    /\ [](AtEntry /\ Top.r = N => Complete(g))
    /\ [](status # "abort")

(* C9 witness: the calls below the last cell have returned, a leaf among them *)
C9_Witness ==
    InLoop /\ cnt > 0 /\ Top.r = N - 1 /\ Top.c = M - 1 /\ Len(stack) = N * M + N - 1

(* C10: on a leaf is_monodominated is true exactly when all voters have the
   same most preferred candidate. *)
C10_MonodominatedOnLeaves ==
    AtLeaf => (is_monodominated(g) <=> SameTop(g))

(* C10 witness: a monodominated leaf whose last voter does not hold the identity *)
C10_Witness ==
    AtLeaf /\ is_monodominated(g) /\ g[N][M] # iota(C)

====
